---- MODULE Spec2Model ----
(***************************************************************************)
(* Little Life: a desktop application that previews a camera, captures or  *)
(* loads a still, sends it to a remote model and shows the identification. *)
(*                                                                         *)
(* Modelled here:                                                          *)
(*   - identify_image.py: _strip_code_fence, the JSON decoding of the      *)
(*     reply, the backfill / coercion / clamping of the record, and the    *)
(*     lazily constructed client (get_client);                             *)
(*   - app.py: choose_opencv_backend, the camera start, the frame poll,    *)
(*     Load Image, Capture, Identify, the background worker, the two       *)
(*     completion handlers and closeEvent.                                 *)
(*                                                                         *)
(* A Python str is a sequence of symbols.  A symbol is a one-character     *)
(* string, except that BT names the backtick character (which cannot be    *)
(* written inside a string of this language), and that a JSON keyword      *)
(* (null, true, false, NaN, Infinity) or a run of letters that no          *)
(* operation ever cuts is one symbol.                                      *)
(***************************************************************************)
EXTENDS Integers, Sequences, FiniteSets, TLC

VARIABLES
    \* ---- identify_image.py, one call of the reply pipeline --------------
    gen,        \* how the reply under test was assembled (its parts)
    reply,      \* resp.output_text
    ipc,        \* position in identify_image: "off","reply","cleaned","parsed","done"
    cleaned,    \* text = _strip_code_fence(...)
    outcome,    \* what identify_image did: [kind, err, text, result]
    \* ---- the process environment -------------------------------------------
    CAMERA_ENABLED,  \* _env_bool("CAMERA_ENABLED")
    CAMERA_BACKEND,  \* the environment variable, Unset when not set
    platform,        \* sys.platform
    api_key,         \* whether OPENAI_API_KEY is set
    \* ---- app.py, MainWindow ---------------------------------------------
    phase,               \* "off", "init" (in __init__), "running", "closed"
    cap,                 \* self.cap: "none", "open", "unopened", "released"
    tried,               \* the backends given to cv2.VideoCapture, in order
    timer,               \* self.timer is active
    last_frame,          \* self.last_frame, 0 for None
    current_image_path,  \* self.current_image_path, "" for None
    temp_files,          \* self.temp_files
    disk,                \* the temporary files that exist on disk
    identify_enabled,    \* self.identify_btn.isEnabled()
    capture_enabled,     \* self.capture_btn.isEnabled()
    status,              \* the status bar message
    shown,               \* the result fields: [kind, img]
    slot_errors,         \* the slots out of which an exception escaped
    closes,              \* how many times closeEvent ran
    \* ---- identification jobs --------------------------------------------
    jobs,       \* the worker threads started by on_identify
    queue,      \* the completions emitted and not yet handled by the UI thread
    client,     \* identify_image._client, 0 for None
    assigns     \* how many times _client was assigned

ivars == <<gen, reply, ipc, cleaned, outcome>>
envvars == <<CAMERA_ENABLED, CAMERA_BACKEND, platform>>
camvars == <<cap, tried, timer, last_frame>>
winvars == <<current_image_path, temp_files, disk, identify_enabled, capture_enabled,
             status, shown, slot_errors>>
jobvars == <<jobs, queue, client, assigns, api_key>>
uvars == <<envvars, phase, camvars, winvars, closes, jobvars>>
vars == <<ivars, uvars>>

----------------------------------------------------------------------------
(* Python str helpers *)

BT == "BT"
NL == "\n"
QT == "\""

Max(a, b) == IF a >= b THEN a ELSE b
Min(a, b) == IF a <= b THEN a ELSE b

\* str.strip() / lstrip() / rstrip() with no argument remove whitespace
IsSpace(c) == c \in {" ", "\n", "\t", "\r"}

RECURSIVE LStrip(_)
LStrip(t) == IF t # <<>> /\ IsSpace(Head(t)) THEN LStrip(Tail(t)) ELSE t

RECURSIVE RStrip(_)
RStrip(t) ==
    IF t # <<>> /\ IsSpace(t[Len(t)]) THEN RStrip(SubSeq(t, 1, Len(t) - 1)) ELSE t

Strip(t) == RStrip(LStrip(t))

StartsWith(t, p) == Len(t) >= Len(p) /\ SubSeq(t, 1, Len(p)) = p
EndsWith(t, p) == Len(t) >= Len(p) /\ SubSeq(t, Len(t) - Len(p) + 1, Len(t)) = p

LowerCh(c) ==
    CASE c = "J" -> "j" [] c = "S" -> "s" [] c = "O" -> "o" [] c = "N" -> "n"
      [] c = "V" -> "v" [] c = "L" -> "l" [] c = "A" -> "a" [] c = "U" -> "u"
      [] c = "T" -> "t"
      [] OTHER -> c
Lower(t) == [i \in 1..Len(t) |-> LowerCh(t[i])]

\* index of the first occurrence of c in t, 0 when there is none
IndexOf(t, c) ==
    IF \E i \in 1..Len(t) : t[i] = c
    THEN CHOOSE i \in 1..Len(t) : t[i] = c /\ \A j \in 1..(i - 1) : t[j] # c
    ELSE 0

Fence == <<BT, BT, BT>>
JsonTag == <<"j", "s", "o", "n">>

----------------------------------------------------------------------------
(* identify_image.py: _strip_code_fence *)

\* t.split("\n", 1)[1] if "\n" in t else ""
AfterFirstLine(t) ==
    IF IndexOf(t, NL) # 0 THEN SubSeq(t, IndexOf(t, NL) + 1, Len(t)) ELSE <<>>

\* if t.rstrip().endswith("```"): t = t.rstrip()[:-3]
DropTrailingFence(t) ==
    IF EndsWith(RStrip(t), Fence)
    THEN SubSeq(RStrip(t), 1, Len(RStrip(t)) - 3)
    ELSE t

\* if t.lower().startswith("json"): t = t[4:].lstrip()
DropJsonTag(t) ==
    IF StartsWith(Lower(t), JsonTag) THEN LStrip(SubSeq(t, 5, Len(t))) ELSE t

_strip_code_fence(text) ==
    LET t == Strip(text)
    IN  IF StartsWith(t, Fence)
        THEN DropJsonTag(Strip(DropTrailingFence(AfterFirstLine(t))))
        ELSE t

----------------------------------------------------------------------------
(* JSON values as json.loads builds them.  Every value is a record of the   *)
(* same shape: t is the Python type, s the text of a str, n the number      *)
(* (a float keeps its value in tenths).                                     *)

V(t, s, n) == [t |-> t, s |-> s, n |-> n]
StrV(s) == V("str", s, 0)
IntV(n) == V("int", <<>>, n)
FltV(tenths) == V("flt", <<>>, tenths)
BoolV(b) == V("bool", <<>>, IF b THEN 1 ELSE 0)
NullV == V("null", <<>>, 0)
NanV == V("nan", <<>>, 0)
InfV(sign) == V("inf", <<>>, sign)
ArrV == V("arr", <<>>, 0)
ObjV == V("obj", <<>>, 0)

\* a Python dict: a function from keys (str) to values
EmptyDict == [k \in {} |-> NullV]
Put(d, k, v) == [x \in DOMAIN d \cup {k} |-> IF x = k THEN v ELSE d[x]]

Digits == {"0", "1", "2", "3", "4", "5", "6", "7", "8", "9"}
DigitVal(c) ==
    CASE c = "0" -> 0 [] c = "1" -> 1 [] c = "2" -> 2 [] c = "3" -> 3
      [] c = "4" -> 4 [] c = "5" -> 5 [] c = "6" -> 6 [] c = "7" -> 7
      [] c = "8" -> 8 [] c = "9" -> 9

At(t, i) == IF i >= 1 /\ i <= Len(t) THEN t[i] ELSE "EOF"

RECURSIVE DigitsFrom(_, _, _)
DigitsFrom(t, i, acc) ==
    IF At(t, i) \in Digits
    THEN DigitsFrom(t, i + 1, acc * 10 + DigitVal(t[i]))
    ELSE [n |-> acc, nxt |-> i]

RECURSIVE SkipWs(_, _)
SkipWs(t, i) == IF IsSpace(At(t, i)) THEN SkipWs(t, i + 1) ELSE i

----------------------------------------------------------------------------
(* json.loads, as the standard decoder reads a text: one value between     *)
(* optional whitespace.  Not modelled: escapes inside strings, exponents.  *)

PR(v, d, nxt) == [ok |-> TRUE, v |-> v, d |-> d, nxt |-> nxt]
ParseFail == [ok |-> FALSE, v |-> NullV, d |-> EmptyDict, nxt |-> 0]

\* a string literal: from a quote to the next quote, no control character inside
ParseString(t, i) ==
    LET rest == SubSeq(t, i + 1, Len(t))
        k == IndexOf(rest, QT)
        content == SubSeq(rest, 1, k - 1)
    IN  IF k = 0 \/ \E x \in 1..Len(content) : content[x] \in {"\n", "\t", "\r"}
        THEN ParseFail
        ELSE PR(StrV(content), EmptyDict, i + k + 1)

\* -? (0 | [1-9][0-9]*) (\. [0-9]+)?   and -Infinity
ParseNumber(t, i) ==
    LET neg == At(t, i) = "-"
        sign == IF neg THEN -1 ELSE 1
        j == IF neg THEN i + 1 ELSE i
        ip == IF At(t, j) = "0" THEN [n |-> 0, nxt |-> j + 1] ELSE DigitsFrom(t, j, 0)
    IN  IF At(t, j) \notin Digits
        THEN IF neg /\ At(t, j) = "Infinity"
             THEN PR(InfV(-1), EmptyDict, j + 1)
             ELSE ParseFail
        ELSE IF At(t, ip.nxt) = "." /\ At(t, ip.nxt + 1) \in Digits
             THEN PR(FltV(sign * (ip.n * 10 + DigitVal(t[ip.nxt + 1]))), EmptyDict,
                     DigitsFrom(t, ip.nxt + 1, 0).nxt)
             ELSE PR(IntV(sign * ip.n), EmptyDict, ip.nxt)

RECURSIVE ParseValue(_, _), ParseMembers(_, _, _), ParseElements(_, _)

ParseValue(t, i) ==
    LET c == At(t, i)
    IN  CASE c = QT -> ParseString(t, i)
          [] c = "{" ->
                IF At(t, SkipWs(t, i + 1)) = "}"
                THEN PR(ObjV, EmptyDict, SkipWs(t, i + 1) + 1)
                ELSE ParseMembers(t, SkipWs(t, i + 1), EmptyDict)
          [] c = "[" ->
                IF At(t, SkipWs(t, i + 1)) = "]"
                THEN PR(ArrV, EmptyDict, SkipWs(t, i + 1) + 1)
                ELSE ParseElements(t, SkipWs(t, i + 1))
          [] c = "null" -> PR(NullV, EmptyDict, i + 1)
          [] c = "true" -> PR(BoolV(TRUE), EmptyDict, i + 1)
          [] c = "false" -> PR(BoolV(FALSE), EmptyDict, i + 1)
          [] c = "NaN" -> PR(NanV, EmptyDict, i + 1)
          [] c = "Infinity" -> PR(InfV(1), EmptyDict, i + 1)
          [] c \in Digits \cup {"-"} -> ParseNumber(t, i)
          [] OTHER -> ParseFail

\* "key" : value ( , "key" : value )* }      a repeated key keeps the last value
ParseMembers(t, j, d) ==
    IF At(t, j) # QT THEN ParseFail
    ELSE LET k == ParseString(t, j)
         IN  IF ~k.ok \/ At(t, SkipWs(t, k.nxt)) # ":" THEN ParseFail
             ELSE LET v == ParseValue(t, SkipWs(t, SkipWs(t, k.nxt) + 1))
                  IN  IF ~v.ok THEN ParseFail
                      ELSE LET m == SkipWs(t, v.nxt)
                               d2 == Put(d, k.v.s, v.v)
                           IN  CASE At(t, m) = "," -> ParseMembers(t, SkipWs(t, m + 1), d2)
                                 [] At(t, m) = "}" -> PR(ObjV, d2, m + 1)
                                 [] OTHER -> ParseFail

\* value ( , value )* ]
ParseElements(t, j) ==
    LET v == ParseValue(t, j)
    IN  IF ~v.ok THEN ParseFail
        ELSE LET m == SkipWs(t, v.nxt)
             IN  CASE At(t, m) = "," -> ParseElements(t, SkipWs(t, m + 1))
                   [] At(t, m) = "]" -> PR(ArrV, EmptyDict, m + 1)
                   [] OTHER -> ParseFail

\* json.loads(text): ok is FALSE where the call raises
json_loads(t) ==
    LET r == ParseValue(t, SkipWs(t, 1))
    IN  IF r.ok /\ SkipWs(t, r.nxt) > Len(t)
        THEN [ok |-> TRUE, v |-> r.v, d |-> r.d]
        ELSE [ok |-> FALSE, v |-> NullV, d |-> EmptyDict]

\* isinstance(result, dict)
IsDict(r) == r.v.t = "obj"

----------------------------------------------------------------------------
(* identify_image.py: identify_image, from the reply text on *)

K_name == <<"best_guess_name">>
K_conf == <<"confidence">>
K_desc == <<"description">>
K_feat == <<"features_used">>
Expected == {K_name, K_conf, K_desc, K_feat}

\* the bug of assigning the default where setdefault is meant
SetDefault_Overwrite(d, k, v) == Put(d, k, v)

\* dict.setdefault(k, v)
SetDefault(d, k, v) == IF k \in DOMAIN d THEN d ELSE Put(d, k, v)

\* the bug of forgetting the last of the four defaults
Backfill_NoFeatures(d) ==
    SetDefault(SetDefault(SetDefault(d,
        K_name, StrV(<<"Unknown">>)),
        K_conf, IntV(0)),
        K_desc, StrV(<<>>))

\* result.setdefault(...) four times
Backfill(d) ==
    SetDefault(SetDefault(SetDefault(SetDefault(d,
        K_name, StrV(<<"Unknown">>)),
        K_conf, IntV(0)),
        K_desc, StrV(<<>>)),
        K_feat, StrV(<<>>))

\* int(str): surrounding whitespace, an optional sign, then digits only
PyIntOfStr(s) ==
    LET u == Strip(s)
        signed == u # <<>> /\ Head(u) \in {"-", "+"}
        body == IF signed THEN Tail(u) ELSE u
    IN  IF body # <<>> /\ \A i \in 1..Len(body) : body[i] \in Digits
        THEN [ok |-> TRUE,
              n |-> (IF signed /\ Head(u) = "-" THEN -1 ELSE 1) * DigitsFrom(body, 1, 0).n]
        ELSE [ok |-> FALSE, n |-> 0]

\* int(x): ok is FALSE where it raises (TypeError, ValueError, OverflowError)
PyInt(v) ==
    CASE v.t = "int" -> [ok |-> TRUE, n |-> v.n]
      [] v.t = "bool" -> [ok |-> TRUE, n |-> v.n]
      [] v.t = "flt" -> [ok |-> TRUE,
                         n |-> IF v.n >= 0 THEN v.n \div 10 ELSE -((-v.n) \div 10)]
      [] v.t = "str" -> PyIntOfStr(v.s)
      [] OTHER -> [ok |-> FALSE, n |-> 0]

\* try: result["confidence"] = int(result["confidence"]) except: ... = 0
CoerceConfidence(d) ==
    Put(d, K_conf, IntV(IF PyInt(d[K_conf]).ok THEN PyInt(d[K_conf]).n ELSE 0))

\* the bug of clamping from below only
ClampConfidence_NoUpper(d) == Put(d, K_conf, IntV(Max(0, d[K_conf].n)))

\* result["confidence"] = max(0, min(100, result["confidence"]))
ClampConfidence(d) == Put(d, K_conf, IntV(Max(0, Min(100, d[K_conf].n))))

Normalize(d) == ClampConfidence(CoerceConfidence(Backfill(d)))

Returned(d) == [kind |-> "ok", err |-> "", text |-> <<>>, result |-> d]
Raised(err, text) == [kind |-> "error", err |-> err, text |-> text, result |-> EmptyDict]
NoOutcome == [kind |-> "none", err |-> "", text |-> <<>>, result |-> EmptyDict]

\* lines 104-110: the two response-format errors, or the decoded dict
Decode(text) ==
    IF ~json_loads(text).ok THEN Raised("Model did not return JSON", text)
    ELSE IF ~IsDict(json_loads(text)) THEN Raised("Model returned non-dict JSON", text)
    ELSE Returned(json_loads(text).d)

\* identify_image once the remote reply (resp.output_text) is in hand
identify_image(output_text) ==
    LET o == Decode(_strip_code_fence(output_text))
    IN  IF o.kind = "ok" THEN Returned(Normalize(o.result)) ELSE o

----------------------------------------------------------------------------
(* The replies the pipeline is run on: a body, optionally wrapped in a     *)
(* fence.  An empty member text stands for "the field is absent".          *)

Quote(s) == <<QT>> \o s \o <<QT>>

NameTexts == { <<>>, Quote(<<"R", "o", "t">>), <<"7">>, <<"null">> }
ConfTexts ==
    { <<>>, <<"-", "5">>, <<"0">>, <<"4", "2">>, <<"1", "0", "0">>, <<"1", "5", "0">>,
      <<"4", "2", ".", "7">>, <<"-", "0", ".", "5">>, <<"1", "0", "0", ".", "5">>,
      Quote(<<"4", "2">>), Quote(<<" ", "7", " ">>), Quote(<<"-", "5">>),
      Quote(<<"h", "i">>), Quote(<<"4", ".", "5">>), Quote(<<>>),
      <<"null">>, <<"true">>, <<"[", "1", "]">>, <<"{", "}">>,
      <<"Infinity">>, <<"-", "Infinity">>, <<"NaN">> }
DescTexts == { <<>>, Quote(<<"d">>) }
FeatTexts == { <<>>, Quote(<<"f">>) }

Member(k, v, gap) == IF v = <<>> THEN <<>> ELSE <<Quote(k) \o <<":">> \o gap \o v>>

RECURSIVE Join(_, _)
Join(ms, sep) ==
    IF ms = <<>> THEN <<>>
    ELSE IF Len(ms) = 1 THEN ms[1]
    ELSE ms[1] \o sep \o Join(Tail(ms), sep)

\* the JSON text of an object with the given member texts, on one line or on several
ObjText(nm, cf, ds, ft, pretty) ==
    LET gap == IF pretty THEN <<" ">> ELSE <<>>
        ms == Member(K_name, nm, gap) \o Member(K_conf, cf, gap)
                \o Member(K_desc, ds, gap) \o Member(K_feat, ft, gap)
    IN  IF pretty
        THEN <<"{", NL, " ">> \o Join(ms, <<",", NL, " ">>) \o <<NL, "}">>
        ELSE <<"{">> \o Join(ms, <<",">>) \o <<"}">>

ObjectBodies ==
    { ObjText(nm, cf, ds, ft, FALSE) :
        nm \in NameTexts, cf \in ConfTexts, ds \in DescTexts, ft \in FeatTexts }
    \cup { ObjText(nm, cf, Quote(<<"d">>), <<>>, TRUE) : nm \in NameTexts, cf \in ConfTexts }

FewObjectBodies ==
    { ObjText(Quote(<<"R", "o", "t">>), <<"1", "5", "0">>, <<>>, <<>>, pretty) :
        pretty \in BOOLEAN }
    \cup { <<"{", "}">>,
           ObjText(<<>>, <<"4", "2">>, Quote(<<"d">>), Quote(<<"f">>), TRUE) }

OtherBodies ==
    { <<>>, <<"{">>, <<"n", "o">>, <<"[", "1", "]">>, <<"4", "2">>, <<"null">>,
      Quote(<<"x">>), <<"{", QT, "a", QT, ":", "1", ",", "}">>,
      <<"{", QT, "a", QT, "1", "}">>, <<"{", "}", "x">>, <<"0", "1">>,
      <<"j", "s", "o", "n">>, <<"{", QT, "a", NL, QT, ":", "1", "}">> }

Tags == { <<>>, JsonTag, <<"J", "S", "O", "N">> }
Seps1 == { <<>>, <<NL>>, <<" ">>, <<" ", NL>>, <<NL, NL>>, <<NL, "j", "s", "o", "n", NL>> }
Seps2 == { <<>>, <<NL>>, <<" ", NL>> }
Pads == { [lead |-> <<>>, trail |-> <<>>], [lead |-> <<" ", NL>>, trail |-> <<NL>>] }

Form(fence, tag, sep1, body, sep2, close, pad) ==
    [fence |-> fence, tag |-> tag, sep1 |-> sep1, body |-> body,
     sep2 |-> sep2, close |-> close, lead |-> pad.lead, trail |-> pad.trail]

\* every wrapping of a body
Wraps(body) ==
    { Form(fence, tag, sep1, body, sep2, close, pad) :
        fence \in BOOLEAN, tag \in Tags, sep1 \in Seps1, sep2 \in Seps2,
        close \in BOOLEAN, pad \in Pads }

WellFormedForm(g) ==
    /\ ~g.fence => g.tag = <<>> /\ g.sep1 = <<>>
    /\ ~g.close => g.sep2 = <<>>

\* the bare reply and the reply in a fence with a tag on the opening line
PlainWraps(body) ==
    { Form(FALSE, <<>>, <<>>, body, <<>>, FALSE, [lead |-> <<>>, trail |-> <<>>]),
      Form(TRUE, JsonTag, <<NL>>, body, <<NL>>, TRUE, [lead |-> <<>>, trail |-> <<>>]) }

Forms ==
    UNION { PlainWraps(b) : b \in ObjectBodies \cup OtherBodies }
    \cup { g \in UNION { Wraps(b) : b \in FewObjectBodies \cup OtherBodies } :
             WellFormedForm(g) }

TextOf(g) ==
    g.lead \o (IF g.fence THEN Fence \o g.tag \o g.sep1 ELSE <<>>) \o g.body
           \o (IF g.close THEN g.sep2 \o Fence ELSE <<>>) \o g.trail

----------------------------------------------------------------------------
(* Bounds of the model *)

MaxJobs == 2        \* identification jobs started in one run
MaxCaptures == 2    \* stills captured in one run
MaxFrames == 1      \* distinct frames the camera delivers
MaxCloses == 2      \* times closeEvent runs

----------------------------------------------------------------------------
(* app.py: choose_opencv_backend *)

\* the cv2 backend identifiers that getattr(cv2, ...) finds
CAP_V4L2 == 200
CAP_AVFOUNDATION == 1200
CAP_DSHOW == 700
CAP_MSMF == 1400

Unset == <<"UNSET">>
Auto == <<"a", "u", "t", "o">>
V4l2 == <<"v", "4", "l", "2">>
BackendNames == {Auto, V4l2, <<"avfoundation">>, <<"dshow">>, <<"msmf">>}

\* the values of CAMERA_BACKEND the model starts from
BackendValues ==
    BackendNames \cup {Unset, <<>>, <<" ", "V", "4", "L", "2", " ">>, <<"g", "s", "t">>}
Platforms == {"linux", "darwin", "win32"}

backend_map(pref) ==
    CASE pref = Auto -> 0
      [] pref = V4l2 -> CAP_V4L2
      [] pref = <<"avfoundation">> -> CAP_AVFOUNDATION
      [] pref = <<"dshow">> -> CAP_DSHOW
      [] pref = <<"msmf">> -> CAP_MSMF

\* pref = (os.getenv("CAMERA_BACKEND", "auto") or "auto").strip().lower()
BackendPref(env) ==
    LET got == IF env = Unset THEN Auto ELSE env
    IN  Lower(Strip(IF got = <<>> THEN Auto ELSE got))

choose_opencv_backend(env, plat) ==
    IF BackendPref(env) \in BackendNames THEN backend_map(BackendPref(env))
    ELSE IF plat = "linux" THEN backend_map(V4l2)
    ELSE IF plat = "darwin" THEN backend_map(<<"avfoundation">>)
    ELSE 0

----------------------------------------------------------------------------
(* app.py: MainWindow, the camera *)

\* as __init__ calls it (self.cap is None, so nothing is released
\* first).  okPref / okAuto: whether the device opens with the preferred
\* backend / with no backend given.
_start_camera(okPref, okAuto) ==
    LET backend == choose_opencv_backend(CAMERA_BACKEND, platform)
        opened == IF backend # 0 THEN okPref \/ okAuto ELSE okAuto
    IN  /\ tried' = IF backend # 0
                    THEN (IF okPref THEN <<backend>> ELSE <<backend, 0>>)
                    ELSE <<0>>
        /\ cap' = IF opened THEN "open" ELSE "unopened"
        /\ timer' = opened
        /\ status' = IF opened THEN "Live camera running." ELSE "Camera not available."
        /\ capture_enabled' = (IF opened THEN capture_enabled ELSE FALSE)
        /\ UNCHANGED last_frame

\* MainWindow.__init__, lines 267-283
Construct ==
    /\ phase = "init"
    /\ phase' = "running"
    /\ IF CAMERA_ENABLED
       THEN \E okPref, okAuto \in BOOLEAN : _start_camera(okPref, okAuto)
       ELSE /\ capture_enabled' = FALSE
            /\ status' = "Camera disabled (CAMERA_ENABLED=0)."
            /\ UNCHANGED camvars
    /\ UNCHANGED <<ivars, envvars, closes, jobvars, current_image_path, temp_files, disk,
                   identify_enabled, shown, slot_errors>>

\* run by the timer; f = 0: cap.read() failed
_update_camera_frame ==
    /\ phase = "running"
    /\ timer
    /\ \E f \in 0..MaxFrames :
          last_frame' = (IF cap = "none" \/ f = 0 THEN last_frame ELSE f)
    /\ UNCHANGED <<ivars, envvars, phase, cap, tried, timer, winvars, closes, jobvars>>

----------------------------------------------------------------------------
(* app.py: MainWindow, the UI actions *)

Files == {"a.png", "b.jpg"}
TmpName(i) ==
    CASE i = 1 -> "tmp1.jpg" [] i = 2 -> "tmp2.jpg" [] i = 3 -> "tmp3.jpg"
      [] OTHER -> "tmp4.jpg"
Range(f) == {f[i] : i \in DOMAIN f}

Blank == [label |-> "", notes |-> "blank", notes_img |-> ""]

\* on_load_image; file_path = "": the dialog was cancelled
on_load_image(file_path) ==
    /\ phase = "running"
    /\ IF file_path = ""
       THEN UNCHANGED <<timer, winvars>>
       ELSE /\ timer' = (IF CAMERA_ENABLED THEN FALSE ELSE timer)
            /\ current_image_path' = file_path
            /\ identify_enabled' = TRUE
            /\ shown' = Blank
            /\ status' = "Image loaded. Ready to identify."
            /\ UNCHANGED <<temp_files, disk, capture_enabled, slot_errors>>
    /\ UNCHANGED <<ivars, envvars, phase, cap, tried, last_frame, closes, jobvars>>

\* the bug of writing the still without checking that a frame was polled
on_capture_NoFrameCheck ==
    /\ phase = "running"
    /\ CAMERA_ENABLED => Len(temp_files) < MaxCaptures
    /\ IF ~CAMERA_ENABLED
       THEN /\ status' = "Camera disabled."
            /\ UNCHANGED <<current_image_path, temp_files, disk, identify_enabled, shown>>
       ELSE LET tmp_path == TmpName(Len(temp_files) + 1)
            IN  /\ temp_files' = Append(temp_files, tmp_path)
                /\ disk' = disk \cup {tmp_path}
                /\ current_image_path' = tmp_path
                /\ identify_enabled' = TRUE
                /\ shown' = Blank
                /\ status' = "Captured frame. Ready to identify."
    /\ UNCHANGED <<ivars, envvars, phase, camvars, capture_enabled, slot_errors, closes,
                   jobvars>>

\* on_capture
on_capture ==
    /\ phase = "running"
    /\ (CAMERA_ENABLED /\ last_frame # 0) => Len(temp_files) < MaxCaptures
    /\ IF ~CAMERA_ENABLED
       THEN /\ status' = "Camera disabled."
            /\ UNCHANGED <<current_image_path, temp_files, disk, identify_enabled, shown>>
       ELSE IF last_frame = 0
       THEN /\ status' = "No camera frame yet."
            /\ UNCHANGED <<current_image_path, temp_files, disk, identify_enabled, shown>>
       ELSE LET tmp_path == TmpName(Len(temp_files) + 1)
            IN  /\ temp_files' = Append(temp_files, tmp_path)
                /\ disk' = disk \cup {tmp_path}
                /\ current_image_path' = tmp_path
                /\ identify_enabled' = TRUE
                /\ shown' = Blank
                /\ status' = "Captured frame. Ready to identify."
    /\ UNCHANGED <<ivars, envvars, phase, camvars, capture_enabled, slot_errors, closes,
                   jobvars>>

\* os.unlink(p) inside try / except Exception: pass -- a missing file raises,
\* the exception is swallowed
RECURSIVE UnlinkAll(_, _)
UnlinkAll(files, d) ==
    IF files = <<>> THEN d ELSE UnlinkAll(Tail(files), d \ {Head(files)})

\* the bug of unlinking without try / except: the FileNotFoundError of a file
\* already deleted escapes closeEvent and the rest of the cleanup is skipped
closeEvent_UnguardedUnlink ==
    /\ phase \in {"running", "closed"}
    /\ closes < MaxCloses
    /\ closes' = closes + 1
    /\ phase' = "closed"
    /\ disk' = UnlinkAll(temp_files, disk)
    /\ IF Range(temp_files) \subseteq disk
       THEN /\ timer' = FALSE
            /\ cap' = (IF cap # "none" THEN "released" ELSE cap)
            /\ UNCHANGED slot_errors
       ELSE /\ slot_errors' = slot_errors \cup {"closeEvent"}
            /\ UNCHANGED <<timer, cap>>
    /\ UNCHANGED <<ivars, envvars, tried, last_frame, current_image_path, temp_files,
                   identify_enabled, capture_enabled, status, shown, jobvars>>

\* closeEvent: the window is gone afterwards, so no click and no timer tick
\* follows; only a further closeEvent may
closeEvent ==
    /\ phase \in {"running", "closed"}
    /\ closes < MaxCloses
    /\ closes' = closes + 1
    /\ phase' = "closed"
    /\ disk' = UnlinkAll(temp_files, disk)
    /\ timer' = FALSE
    /\ cap' = (IF cap # "none" THEN "released" ELSE cap)
    /\ UNCHANGED <<ivars, envvars, tried, last_frame, current_image_path, temp_files,
                   identify_enabled, capture_enabled, status, shown, slot_errors, jobvars>>

----------------------------------------------------------------------------
(* identification jobs: on_identify, the worker (run), get_client and the  *)
(* two completion handlers                                                 *)

\* the replies the remote model gives in the UI runs
GoodReply ==
    Fence \o JsonTag \o <<NL>>
      \o ObjText(Quote(<<"R", "o", "t">>), <<"1", "5", "0">>, <<>>, <<>>, FALSE)
      \o <<NL>> \o Fence
NumberNameReply == ObjText(<<"7">>, <<"4", "2">>, Quote(<<"d">>), <<>>, FALSE)
BadReply == <<"n", "o">>
UiReplies == {GoodReply, NumberNameReply, BadReply}
CallFailed == <<"FAILED">>   \* the file read or the remote call raised

\* a worker thread: img is the path taken by value, pc its position, client the
\* handle get_client returned to it, call how identify_image ended ("pending",
\* "returned", "raised"), sent the signal it emitted, emits how many it
\* emitted, handled how the UI slot for it ended ("no", "ok", "raised")
NewJob(img) ==
    [img |-> img, pc |-> "check", client |-> 0, call |-> "pending", sent |-> "",
     emits |-> 0, handled |-> "no"]

\* on_identify; the button's clicked signal reaches it only while the button
\* is enabled
on_identify ==
    /\ phase = "running"
    /\ identify_enabled
    /\ Len(jobs) < MaxJobs
    /\ IF current_image_path = ""
       THEN /\ status' = "No image selected."
            /\ UNCHANGED <<identify_enabled, jobs>>
       ELSE /\ identify_enabled' = FALSE
            /\ status' = "Identifying..."
            /\ jobs' = Append(jobs, NewJob(current_image_path))
    /\ UNCHANGED <<ivars, envvars, phase, camvars, current_image_path, temp_files, disk,
                   capture_enabled, shown, slot_errors, closes, queue, client, assigns,
                   api_key>>

\* self.signals.success.emit / error.emit from the worker: queued to the UI thread
\* lines 440-444: success after a return, error after an exception
Emit(j, out) ==
    LET kind == IF out.kind = "ok" THEN "success" ELSE "error"
    IN  /\ queue' = Append(queue, [job |-> j, kind |-> kind, out |-> out])
        /\ jobs' = [jobs EXCEPT ![j].pc = "done",
                                ![j].call = IF out.kind = "ok" THEN "returned" ELSE "raised",
                                ![j].sent = kind,
                                ![j].emits = @ + 1]

WorkerFrame == <<ivars, envvars, phase, camvars, winvars, closes>>

\* get_client line 12: if _client is None
GetClientCheck(j) ==
    /\ j \in DOMAIN jobs
    /\ jobs[j].pc = "check"
    /\ jobs' = [jobs EXCEPT ![j].pc = IF client = 0 THEN "key" ELSE "ret"]
    /\ UNCHANGED <<WorkerFrame, queue, client, assigns, api_key>>

\* get_client lines 13-17 with secrets_store.get_openai_api_key: no key raises
\* RuntimeError, which run() turns into the error signal
GetClientKey(j) ==
    /\ j \in DOMAIN jobs
    /\ jobs[j].pc = "key"
    /\ IF api_key
       THEN jobs' = [jobs EXCEPT ![j].pc = "construct"] /\ UNCHANGED queue
       ELSE Emit(j, Raised("OpenAI API key not set", <<>>))
    /\ UNCHANGED <<WorkerFrame, client, assigns, api_key>>

\* get_client line 18: _client = OpenAI(api_key=api_key); the handle built by
\* job j is named j
GetClientConstruct(j) ==
    /\ j \in DOMAIN jobs
    /\ jobs[j].pc = "construct"
    /\ client' = j
    /\ assigns' = assigns + 1
    /\ jobs' = [jobs EXCEPT ![j].pc = "ret"]
    /\ UNCHANGED <<WorkerFrame, queue, api_key>>

\* get_client line 19: return _client
GetClientReturn(j) ==
    /\ j \in DOMAIN jobs
    /\ jobs[j].pc = "ret"
    /\ jobs' = [jobs EXCEPT ![j].pc = "request", ![j].client = client]
    /\ UNCHANGED <<WorkerFrame, queue, client, assigns, api_key>>

\* the rest of identify_image inside run(): read the file, call the remote
\* model, decode the reply; then emit success or error
Request(j) ==
    /\ j \in DOMAIN jobs
    /\ jobs[j].pc = "request"
    /\ \E r \in UiReplies \cup {CallFailed} :
          /\ (jobs[j].img \in Range(temp_files) /\ jobs[j].img \notin disk) => r = CallFailed
          /\ IF r = CallFailed
             THEN Emit(j, Raised("call failed", <<>>))
             ELSE Emit(j, identify_image(r))
    /\ UNCHANGED <<WorkerFrame, client, assigns, api_key>>

\* QLabel.setText takes a str: any other value raises TypeError in the slot
SetTextAccepts(v) == v.t = "str"

\* result.get(key, default)
DictGet(d, k, default) == IF k \in DOMAIN d THEN d[k] ELSE default

\* _on_identify_success: line 453 raises before anything is changed when the
\* name is not a str
_on_identify_success(j, result) ==
    IF SetTextAccepts(DictGet(result, K_name, StrV(<<"Unknown">>)))
    THEN /\ shown' = [label |-> jobs[j].img, notes |-> "result", notes_img |-> jobs[j].img]
         /\ identify_enabled' = TRUE
         /\ status' = "Done."
         /\ jobs' = [jobs EXCEPT ![j].handled = "ok"]
         /\ UNCHANGED slot_errors
    ELSE /\ slot_errors' = slot_errors \cup {"_on_identify_success"}
         /\ jobs' = [jobs EXCEPT ![j].handled = "raised"]
         /\ UNCHANGED <<shown, identify_enabled, status>>

\* _on_identify_error: only the notes change, the name and confidence labels stay
_on_identify_error(j, message) ==
    /\ shown' = [shown EXCEPT !.notes = "error", !.notes_img = jobs[j].img]
    /\ identify_enabled' = TRUE
    /\ status' = "Failed."
    /\ jobs' = [jobs EXCEPT ![j].handled = "ok"]
    /\ UNCHANGED slot_errors

\* the UI thread's event loop hands the next queued completion to its slot
Deliver ==
    /\ queue # <<>>
    /\ phase \in {"running", "closed"}
    /\ queue' = Tail(queue)
    /\ IF Head(queue).kind = "success"
       THEN _on_identify_success(Head(queue).job, Head(queue).out.result)
       ELSE _on_identify_error(Head(queue).job, Head(queue).out.err)
    /\ UNCHANGED <<ivars, envvars, phase, camvars, current_image_path, temp_files, disk,
                   capture_enabled, closes, client, assigns, api_key>>

\* the environment: OPENAI_API_KEY becomes available
ProvideKey ==
    /\ ~api_key
    /\ api_key' = TRUE
    /\ UNCHANGED <<ivars, envvars, phase, camvars, winvars, closes, jobs, queue, client,
                   assigns>>

----------------------------------------------------------------------------
(* Specifications *)

PipelineOff ==
    /\ gen = Form(FALSE, <<>>, <<>>, <<>>, <<>>, FALSE, [lead |-> <<>>, trail |-> <<>>])
    /\ reply = <<>>
    /\ ipc = "off"
    /\ cleaned = <<>>
    /\ outcome = NoOutcome

\* MainWindow's fields as __init__ sets them before the camera is started
\* (lines 161-163, 252-274), with no job and no client yet
WindowFields ==
    /\ cap = "none"
    /\ tried = <<>>
    /\ timer = FALSE
    /\ last_frame = 0
    /\ current_image_path = ""
    /\ temp_files = <<>>
    /\ disk = {}
    /\ identify_enabled = FALSE
    /\ capture_enabled = TRUE
    /\ status = "Ready"
    /\ shown = Blank
    /\ slot_errors = {}
    /\ closes = 0
    /\ jobs = <<>>
    /\ queue = <<>>
    /\ client = 0
    /\ assigns = 0

\* the camera and the window, in every camera environment, with no
\* identification job
InitCamera ==
    /\ PipelineOff
    /\ CAMERA_ENABLED \in BOOLEAN
    /\ CAMERA_BACKEND \in BackendValues
    /\ platform \in Platforms
    /\ api_key = TRUE
    /\ phase = "init"
    /\ WindowFields

NextCamera ==
    \/ Construct
    \/ _update_camera_frame
    \/ \E f \in Files \cup {""} : on_load_image(f)
    \/ on_capture
    \/ closeEvent

SpecCamera == InitCamera /\ [][NextCamera]_vars

\* the whole application; the camera backend, which the jobs never read, is
\* left at its default (CAMERA_BACKEND not set, on Linux)
Init ==
    /\ PipelineOff
    /\ CAMERA_ENABLED \in BOOLEAN
    /\ CAMERA_BACKEND = Unset
    /\ platform = "linux"
    /\ api_key \in BOOLEAN
    /\ phase = "init"
    /\ WindowFields

Next ==
    \/ NextCamera
    \/ on_identify
    \/ \E j \in 1..MaxJobs : GetClientCheck(j)
    \/ \E j \in 1..MaxJobs : GetClientKey(j)
    \/ \E j \in 1..MaxJobs : GetClientConstruct(j)
    \/ \E j \in 1..MaxJobs : GetClientReturn(j)
    \/ \E j \in 1..MaxJobs : Request(j)
    \/ Deliver
    \/ ProvideKey

Spec == Init /\ [][Next]_vars

----------------------------------------------------------------------------
(* The reply pipeline as a state machine: one call of identify_image,      *)
(* stepped through its three stages.                                       *)

InitIdentify ==
    /\ gen \in Forms
    /\ reply = TextOf(gen)
    /\ ipc = "reply"
    /\ cleaned = <<>>
    /\ outcome = NoOutcome
    /\ CAMERA_ENABLED = FALSE
    /\ CAMERA_BACKEND = Unset
    /\ platform = "linux"
    /\ api_key = TRUE
    /\ phase = "off"
    /\ WindowFields

\* line 102
StripFence ==
    /\ ipc = "reply"
    /\ cleaned' = _strip_code_fence(reply)
    /\ ipc' = "cleaned"
    /\ UNCHANGED <<gen, reply, outcome, uvars>>

\* lines 104-110
DecodeReply ==
    /\ ipc = "cleaned"
    /\ outcome' = Decode(cleaned)
    /\ ipc' = IF Decode(cleaned).kind = "ok" THEN "parsed" ELSE "done"
    /\ UNCHANGED <<gen, reply, cleaned, uvars>>

\* lines 112-123
NormalizeResult ==
    /\ ipc = "parsed"
    /\ outcome' = Returned(Normalize(outcome.result))
    /\ ipc' = "done"
    /\ UNCHANGED <<gen, reply, cleaned, uvars>>

NextIdentify == StripFence \/ DecodeReply \/ NormalizeResult

SpecIdentify == InitIdentify /\ [][NextIdentify]_vars

----------------------------------------------------------------------------
(* Properties of the reply pipeline (checked under SpecIdentify) *)

\* the object the cleaned text decodes to
ReplyDict == json_loads(cleaned).d
ReplyIsObject == json_loads(cleaned).ok /\ IsDict(json_loads(cleaned))
ReturnedOk == ipc = "done" /\ outcome.kind = "ok"

DefaultOf(k) ==
    CASE k = K_name -> StrV(<<"Unknown">>)
      [] k = K_conf -> IntV(0)
      [] OTHER -> StrV(<<>>)

\* C3: for every reply, identify_image either fails with the response-format
\* error (the cleaned text is not valid JSON, or is JSON that is not an
\* object) or returns a record holding all four fields; it never returns a
\* record lacking one of them, and never returns anything for a reply that
\* does not decode to an object.
C3_FormatErrorOrFullRecord ==
    ipc = "done" =>
        \/ /\ outcome.kind = "error"
           /\ ~ReplyIsObject
           /\ outcome.err = (IF json_loads(cleaned).ok
                             THEN "Model returned non-dict JSON"
                             ELSE "Model did not return JSON")
        \/ /\ outcome.kind = "ok"
           /\ ReplyIsObject
           /\ Expected \subseteq DOMAIN outcome.result

\* a reply that is the empty object comes back as a full record
C3_Witness ==
    /\ ReturnedOk
    /\ ReplyIsObject
    /\ DOMAIN ReplyDict = {}
    /\ DOMAIN outcome.result = Expected

\* what a numeric value is after clamping alone; any other value is left as it is
ClampedOnly(v) ==
    CASE v.t = "int" /\ v.n < 0 -> IntV(0)
      [] v.t = "int" /\ v.n > 100 -> IntV(100)
      [] v.t = "flt" /\ v.n < 0 -> IntV(0)
      [] v.t = "flt" /\ v.n > 1000 -> IntV(100)
      [] OTHER -> v

\* C4 as stated: absent fields get their defaults, present fields keep the
\* reply's value, the only change on a present field being confidence clamped
\* into [0,100].
C4_PresentUnchangedButClamped ==
    ReturnedOk =>
        /\ Expected \subseteq DOMAIN outcome.result
        /\ \A k \in Expected :
              IF k \notin DOMAIN ReplyDict THEN outcome.result[k] = DefaultOf(k)
              ELSE IF k # K_conf THEN outcome.result[k] = ReplyDict[k]
              ELSE outcome.result[k] = ClampedOnly(ReplyDict[k])

\* the integer Python's int() gives for the confidence values of the replies,
\* written out value by value; 0 stands for "int() raises"
IntOfStrTable(s) ==
    CASE s = <<"4", "2">> -> 42
      [] s = <<" ", "7", " ">> -> 7
      [] s = <<"-", "5">> -> -5
      [] OTHER -> 0
Truncated(tenths) ==
    CHOOSE m \in -200..200 :
        IF tenths >= 0 THEN 10 * m <= tenths /\ tenths < 10 * (m + 1)
        ELSE 10 * (m - 1) < tenths /\ tenths <= 10 * m
CoercedOrZero(v) ==
    CASE v.t \in {"int", "bool"} -> v.n
      [] v.t = "flt" -> Truncated(v.n)
      [] v.t = "str" -> IntOfStrTable(v.s)
      [] OTHER -> 0
InRange(n) == IF n < 0 THEN 0 ELSE IF n > 100 THEN 100 ELSE n

\* C4 as amended: absent fields get their defaults, present fields keep the
\* reply's value, the only change on a present field being confidence coerced
\* to an integer (0 when the coercion fails) and then clamped into [0,100].
C4_PresentUnchangedButCoercedAndClamped ==
    ReturnedOk =>
        /\ Expected \subseteq DOMAIN outcome.result
        /\ \A k \in Expected :
              IF k \notin DOMAIN ReplyDict THEN outcome.result[k] = DefaultOf(k)
              ELSE IF k # K_conf THEN outcome.result[k] = ReplyDict[k]
              ELSE outcome.result[k] = IntV(InRange(CoercedOrZero(ReplyDict[k])))

\* a reply with a fractional confidence and no name: the confidence comes back
\* truncated, the name defaulted, the description as sent
C4_Witness ==
    /\ ReturnedOk
    /\ K_name \notin DOMAIN ReplyDict
    /\ K_desc \in DOMAIN ReplyDict
    /\ K_conf \in DOMAIN ReplyDict
    /\ ReplyDict[K_conf] = FltV(427)
    /\ outcome.result[K_conf] = IntV(42)
    /\ outcome.result[K_desc] = ReplyDict[K_desc]

\* the values int() cannot coerce
NotCoercible(v) ==
    \/ v.t \in {"null", "arr", "obj", "nan", "inf"}
    \/ v.t = "str" /\ v.s \in {<<"h", "i">>, <<"4", ".", "5">>, <<>>}

\* C5: the confidence of every returned result is an integer in [0,100]; a
\* reply confidence below 0 gives 0, one above 100 gives 100, an integer
\* already in [0,100] is returned as is, one that cannot be coerced gives 0.
C5_ConfidenceClamped ==
    ReturnedOk =>
        /\ K_conf \in DOMAIN outcome.result
        /\ outcome.result[K_conf].t = "int"
        /\ outcome.result[K_conf].n \in 0..100
        /\ K_conf \in DOMAIN ReplyDict =>
              LET v == ReplyDict[K_conf]
                  c == outcome.result[K_conf].n
              IN  /\ (v.t \in {"int", "flt"} /\ v.n < 0) => c = 0
                  /\ (v.t = "int" /\ v.n > 100) => c = 100
                  /\ (v.t = "flt" /\ v.n > 1000) => c = 100
                  /\ (v.t = "int" /\ v.n \in 0..100) => c = v.n
                  /\ NotCoercible(v) => c = 0

\* the spec's example: confidence 150 comes back as 100
C5_Witness ==
    /\ ReturnedOk
    /\ K_conf \in DOMAIN ReplyDict
    /\ ReplyDict[K_conf] = IntV(150)
    /\ outcome.result[K_conf] = IntV(100)

\* the replies C6 speaks of: a leading fence, with or without a json tag, then
\* the object text, then a trailing fence, with only line breaks in between
OnlyLineBreaks(t) == \A i \in 1..Len(t) : t[i] = NL
FencedObject ==
    /\ gen.fence /\ gen.close
    /\ gen.tag \in {<<>>, JsonTag}
    /\ OnlyLineBreaks(gen.sep1) /\ OnlyLineBreaks(gen.sep2)
    /\ json_loads(gen.body).ok /\ IsDict(json_loads(gen.body))

\* C6 as stated: a fenced object text is reduced to a text that decodes to the
\* same object, wherever the line breaks are; a reply with no leading fence is
\* returned unchanged apart from surrounding whitespace.
C6_FenceStrippedWhateverLineBreaks ==
    ipc # "reply" =>
        /\ FencedObject => json_loads(cleaned) = json_loads(gen.body)
        /\ ~StartsWith(Strip(reply), Fence) => cleaned = Strip(reply)

----------------------------------------------------------------------------
(* Properties of the camera and the window (checked under SpecCamera) *)

\* C7: on_capture with no frame polled yet (camera disabled, failed to open,
\* or no read succeeded) only reports a status: no exception, no temporary
\* file created or tracked, the active image path and the enabled state of
\* Identify unchanged.
C7_CaptureWithoutFrameOnlyReports ==
    [][(on_capture /\ last_frame = 0) =>
          /\ status' \in {"No camera frame yet.", "Camera disabled."}
          /\ UNCHANGED <<temp_files, disk, current_image_path, identify_enabled,
                         slot_errors>>]_vars

\* Capture was clicked with the camera open, an image loaded and no frame yet
C7_Witness ==
    /\ status = "No camera frame yet."
    /\ last_frame = 0
    /\ cap = "open"
    /\ current_image_path \in Files
    /\ identify_enabled
    /\ temp_files = <<>>

\* C8: the first close stops the poll timer, releases the capture device and
\* deletes the tracked temporary files, whatever the camera state was; every
\* further close raises nothing and leaves the state as the first close left it.
C8_CloseIdempotent ==
    [][closeEvent =>
          /\ ~timer'
          /\ cap' # "open"
          /\ Range(temp_files') \cap disk' = {}
          /\ slot_errors' = slot_errors
          /\ closes >= 1 =>
                UNCHANGED <<ivars, envvars, phase, camvars, winvars, jobvars>>]_vars

\* closed twice after a capture from the running camera
C8_Witness ==
    /\ closes = 2
    /\ phase = "closed"
    /\ temp_files # <<>>
    /\ cap = "released"

PlatformDefault(plat) ==
    CASE plat = "linux" -> CAP_V4L2
      [] plat = "darwin" -> CAP_AVFOUNDATION
      [] OTHER -> 0
NamedBackend(name) ==
    CASE name = Auto -> 0
      [] name = V4l2 -> CAP_V4L2
      [] name = <<"avfoundation">> -> CAP_AVFOUNDATION
      [] name = <<"dshow">> -> CAP_DSHOW
      [] name = <<"msmf">> -> CAP_MSMF

\* C9 as stated: with CAMERA_BACKEND not set, the backend _start_camera tries
\* first is the platform default (V4L2 on Linux, AVFoundation on macOS, auto
\* elsewhere); a CAMERA_BACKEND naming a backend selects that backend.
C9_PlatformDefaultWhenUnset ==
    (phase # "init" /\ CAMERA_ENABLED) =>
        /\ CAMERA_BACKEND = Unset => tried[1] = PlatformDefault(platform)
        /\ CAMERA_BACKEND \in BackendNames => tried[1] = NamedBackend(CAMERA_BACKEND)

----------------------------------------------------------------------------
(* Properties of the identification jobs (checked under Spec) *)

\* a job whose completion the UI thread has not handled yet
InFlight(j) == jobs[j].handled = "no"

\* C1 as stated: Identify is disabled while a job is in flight, so at most one
\* job is outstanding.
C1_SingleOutstandingJob ==
    /\ (\E j \in DOMAIN jobs : InFlight(j)) => ~identify_enabled
    /\ Cardinality({j \in DOMAIN jobs : InFlight(j)}) <= 1

\* C2 as stated: a job whose identify_image call ended has emitted exactly one
\* completion, success after a return and error after an exception, and the
\* slot that handled the completion re-enabled Identify.
C2_OneCompletionThenReenabled ==
    \A j \in DOMAIN jobs :
        /\ jobs[j].emits <= 1
        /\ jobs[j].call # "pending" => jobs[j].emits = 1
        /\ jobs[j].call = "returned" => jobs[j].sent = "success"
        /\ jobs[j].call = "raised" => jobs[j].sent = "error"
        /\ jobs[j].handled # "no" => jobs[j].handled = "ok"

\* C10 as stated: _client is assigned at most once and every get_client call
\* that returned gave the same handle.
C10_ClientConstructedOnce ==
    /\ assigns <= 1
    /\ \A i, j \in DOMAIN jobs :
          (jobs[i].client # 0 /\ jobs[j].client # 0) => jobs[i].client = jobs[j].client
    /\ assigns = 0 => client = 0

\* C11 as stated: whatever identification result the result fields show (the
\* name label, and the notes when they hold a result) was computed from the
\* image that is current_image_path now; no result of an earlier active image
\* is on display after the active image changed.
C11_ShownResultIsOfActiveImage ==
    /\ shown.label # "" => shown.label = current_image_path
    /\ shown.notes = "result" => shown.notes_img = current_image_path

====
